---- MODULE Spec2Model ----
(***************************************************************************)
(* Model of the LittleJS core used by SpaceHuggers (engine.js):            *)
(* engineInit / tileImage.onload, the frame handler engineUpdate with its  *)
(* fixed-step loop and render pass, and engineUpdateObjects.               *)
(*                                                                         *)
(* Millisecond values are IEEE-754 doubles in the code.  A double x is     *)
(* kept here as a pair [n, e] standing for  n/3 ms + e*eps  where          *)
(* eps = 2^-48/3 ms, one third of the unit in the last place of a double   *)
(* in [16,32).  Sums and differences of pairs are exact; RoundDouble       *)
(* rounds the exact result to the nearest double, ties to even, as the     *)
(* hardware does.  Every value the model feeds in (whole milliseconds and  *)
(* 1e3/FPS) is a multiple of 2^-48 ms, for which this is exact.            *)
(***************************************************************************)
EXTENDS Integers, Sequences, FiniteSets, TLC

\* ---------------------------------------------------------------- bounds
MaxObjects == 3      \* entities ever created in one run
MaxFrames  == 2      \* frame notifications after the first engineUpdate call
MaxEffects == 2      \* callbacks with a side effect, after appInit
StallMS    == 1000   \* wall delta of a frame after a stall, in ms
MaxInitObjects == 2  \* entities appInit creates at most
MaxQueryObjects == 2 \* entities in a scene that is queried
MaxWalkObjects == 4  \* entities in a forest that is traversed
MaxSchedFrames == 3  \* frame notifications in a run of the scheduler alone
MaxLoads == 2        \* load events of the tile image
MaxReapFrames == 3   \* frame notifications in a run that waits for the sweep
MaxReapObjects == 2  \* entities in such a run

\* ------------------------------------------------------- program constants
FPS == 60
ClampMS == 50
SmoothMS == 9

\* ------------------------------------------------------ double arithmetic
F(n, e) == [n |-> n, e |-> e]
Ms(k) == F(3 * k, 0)
Zero == F(0, 0)

Neg(x) == F(-x.n, -x.e)
Less(x, y) == x.n < y.n \/ (x.n = y.n /\ x.e < y.e)
Geq(x, y) == ~Less(x, y)
AbsF(x) == IF Less(x, Zero) THEN Neg(x) ELSE x

RECURSIVE Pow2(_)
Pow2(k) == IF k = 0 THEN 1 ELSE 2 * Pow2(k - 1)

RECURSIVE BinadeFrom(_, _)
BinadeFrom(a, k) == IF Less(a, Ms(32 * Pow2(k))) THEN k ELSE BinadeFrom(a, k + 1)

\* binade of |x| counted from [16,32): the ulp of x is 2^k * 2^-48 ms
Binade(x) == BinadeFrom(AbsF(x), 0)

\* x / eps modulo 3*2^k, from 2^48 mod (3*2^k) = 2^k * (2^(48-k) mod 3)
ModGrid(a, k) ==
    LET g == 3 * Pow2(k)
        r == IF k % 2 = 0 THEN 1 ELSE 2
    IN  (((a.n % g) * Pow2(k) * r) + (a.e % g)) % g

\* round a non-negative exact value to the nearest double, ties to even
RoundAbs(a) ==
    LET k == Binade(a)
        g == 3 * Pow2(k)
        rem == ModGrid(a, k)
        down == F(a.n, a.e - rem)
        up == F(a.n, a.e + (g - rem))
        downEven == ModGrid(down, k + 1) = 0
    IN  IF rem = 0 THEN a
        ELSE IF 2 * rem < g THEN down
        ELSE IF 2 * rem > g THEN up
        ELSE IF downEven THEN down ELSE up

RoundDouble(x) == IF Less(x, Zero) THEN Neg(RoundAbs(Neg(x))) ELSE RoundAbs(x)

FAdd(x, y) == RoundDouble(F(x.n + y.n, x.e + y.e))
FSub(x, y) == RoundDouble(F(x.n - y.n, x.e - y.e))
FMin(x, y) == IF Less(y, x) THEN y ELSE x

\* 1e3 / FPS
StepMS == RoundDouble(F(3000 \div FPS, 0))

\* wall deltas delivered by the frame notification
Deltas == {Zero, StepMS, Ms(StallMS)}


\* ------------------------------------------------------------------ state
VARIABLES
    pc,                   \* position of the single driver thread
    paused,               \* let paused
    frameTimeBufferMS,    \* let frameTimeBufferMS (the accumulator)
    deltaSmooth,          \* let deltaSmooth of the running engineUpdate
    frame,                \* let frame (tick counter)
    time,                 \* let time, the quotient frame / FPS as [num, den]
    engineObjects,        \* let engineObjects ('all' collection)
    engineCollideObjects, \* let engineCollideObjects ('collidable' collection)
    objects,              \* every entity ever created, by identity 1..Len
    iter,                 \* array iterator of the running for-of over engineObjects
    stack,                \* activation records of updateObject: [o, ci]
    nFrames,              \* frame notifications delivered so far
    effects,              \* callbacks that had a side effect so far
    steps,                \* fixed steps started in the running frame
    renders,              \* render passes started in the running frame
    chain,                \* update-chain callbacks run in the running step
    updated,              \* entities whose update ran in the running pass
    selfDestroyed,        \* entities whose own update marked them in the running pass
    preSort,              \* engineObjects as it was just before the sort
    rendered,             \* entities whose render ran in the running frame
    steady,               \* every delta so far was 1e3/FPS and paused was never read set
    framePaused,          \* paused as the running engineUpdate read it at line 90
    bufferAtStart,        \* frameTimeBufferMS as the running engineUpdate found it
    totalSteps,           \* fixed steps started since the program began
    debug,                \* const debug: a debug build
    qpc,                  \* position of a forEachObject call: "none" or "returned"
    query,                \* arguments of that call: pos, size, collideObjectsOnly
    visited,              \* entities callbackFunction was called on, in call order
    realFrameTimeDeltaMS, \* const realFrameTimeDeltaMS of the running engineUpdate
    frameTimeDeltaMS,     \* let frameTimeDeltaMS, after the debug time scale
    keysDown,             \* what keyIsDown(107) and keyIsDown(109) answered
    bufferAdded,          \* frameTimeBufferMS right after line 91
    armed,                \* frame notifications requested and not yet delivered
    appInits,             \* calls of appInit that have returned
    loads,                \* load events of tileImage delivered
    onloadHandler,        \* tileImage.onload: "none", "init" or "assert"
    liveAtStart,          \* entities in 'all' and not destroyed when the running pass began
    knownAtStart          \* entities ever created when the running pass began

vars == <<pc, paused, frameTimeBufferMS, deltaSmooth, frame, time,
          engineObjects, engineCollideObjects, objects, iter, stack,
          nFrames, effects, steps, renders, chain, updated, selfDestroyed,
          preSort, rendered, steady, framePaused, bufferAtStart, totalSteps,
          debug, qpc, query, visited, realFrameTimeDeltaMS, frameTimeDeltaMS,
          keysDown, bufferAdded, armed, appInits, loads, onloadHandler, liveAtStart,
          knownAtStart>>

registry == <<engineObjects, engineCollideObjects, objects>>
clock == <<frame, time>>
walk == <<iter, stack>>
passLog == <<updated, selfDestroyed>>
renderLog == <<preSort, rendered, renders>>
queryLog == <<debug, qpc, query, visited>>
deltaLog == <<realFrameTimeDeltaMS, frameTimeDeltaMS, keysDown, bufferAdded>>
bootLog == <<armed, appInits, loads, onloadHandler>>
passStart == <<liveAtStart, knownAtStart>>

\* the two keys the debug time scale reads: 107 (+) and 109 (-)
NoKeys == [plus |-> FALSE, minus |-> FALSE]
KeyStates == [plus : BOOLEAN, minus : BOOLEAN]

\* a vec2
Vec(x, y) == [x |-> x, y |-> y]

\* the size argument of forEachObject, by what JavaScript finds in it:
\* "absent" (the default 0), "number" (the value in x), "vector" (x and y),
\* "xonly" (an object with x and no y), "object" (an object with neither)
Region(t, x, y) == [t |-> t, x |-> x, y |-> y]

NoRegion == Region("absent", 0, 0)

NoQuery == [pos |-> Vec(0, 0), size |-> NoRegion, collideObjectsOnly |-> TRUE]

\* entity classes of the game: each fixes its renderOrder and collision flag,
\* and here also where its instances stand and how large they are
Kinds == {[renderOrder |-> 2, collide |-> TRUE, pos |-> Vec(0, 0), size |-> Vec(2, 2)],
          [renderOrder |-> 1, collide |-> FALSE, pos |-> Vec(1, 0), size |-> Vec(0, 0)]}

Range(s) == {s[i] : i \in 1..Len(s)}

Init ==
    /\ pc = "onload"
    /\ paused = FALSE
    /\ frameTimeBufferMS = Zero
    /\ deltaSmooth = Zero
    /\ frame = 0
    /\ time = [num |-> 0, den |-> 1]
    /\ engineObjects = <<>>
    /\ engineCollideObjects = <<>>
    /\ objects = <<>>
    /\ iter = 1
    /\ stack = <<>>
    /\ nFrames = 0
    /\ effects = 0
    /\ steps = 0
    /\ renders = 0
    /\ chain = <<>>
    /\ updated = <<>>
    /\ selfDestroyed = {}
    /\ preSort = <<>>
    /\ rendered = <<>>
    /\ steady = TRUE
    /\ framePaused = FALSE
    /\ bufferAtStart = Zero
    /\ totalSteps = 0
    /\ debug = FALSE
    /\ qpc = "none"
    /\ query = NoQuery
    /\ visited = <<>>
    /\ realFrameTimeDeltaMS = Zero
    /\ frameTimeDeltaMS = Zero
    /\ keysDown = NoKeys
    /\ bufferAdded = Zero
    /\ armed = 0
    /\ appInits = 0
    /\ loads = 1
    /\ onloadHandler = "init"
    /\ liveAtStart = {}
    /\ knownAtStart = 0

\* ------------------------------------------------- entities (EngineObject)
\* new EngineObject(...): enrol in 'all', in 'collidable' iff flagged, and
\* link under the parent when one is given (0 = no parent)
Enroll(p, k) ==
    LET id == Len(objects) + 1
        c == k.collide
        o == [parent |-> p, children |-> <<>>, destroyed |-> FALSE,
              renderOrder |-> k.renderOrder, collide |-> c,
              pos |-> k.pos, size |-> k.size]
        linked == IF p = 0 THEN objects
                  ELSE [objects EXCEPT ![p].children = Append(@, id)]
    IN  /\ Len(objects) < MaxObjects
        /\ objects' = Append(linked, o)
        /\ engineObjects' = Append(engineObjects, id)
        /\ engineCollideObjects' =
              IF c THEN Append(engineCollideObjects, id) ELSE engineCollideObjects

\* o.destroy(): mark only
MarkDestroyed(x) ==
    /\ ~objects[x].destroyed
    /\ objects' = [objects EXCEPT ![x].destroyed = TRUE]
    /\ UNCHANGED <<engineObjects, engineCollideObjects>>

\* body of a callback run inside a fixed step: game logic
UpdateCallback ==
    \/ UNCHANGED <<registry, paused, effects>>
    \/ /\ effects < MaxEffects
       /\ effects' = effects + 1
       /\ \/ \E x \in DOMAIN objects : MarkDestroyed(x) /\ UNCHANGED paused
          \/ \E p \in {0} \cup DOMAIN objects, k \in Kinds :
                Enroll(p, k) /\ UNCHANGED paused
          \/ paused' = ~paused /\ UNCHANGED registry

\* body of a callback run inside the render pass: drawing, may drop entities
RenderCallback ==
    \/ UNCHANGED <<registry, effects>>
    \/ /\ effects < MaxEffects
       /\ effects' = effects + 1
       /\ \E x \in DOMAIN objects : MarkDestroyed(x)

\* ------------------------------------------------------------ engineUpdate
Smoothable(buf) == Less(buf, Zero) /\ Less(Neg(Ms(SmoothMS)), buf)

\* variant: the pause test inverted
AddDeltaInverted(buf, d, p) == IF p THEN FAdd(buf, d) ELSE buf

AddDelta(buf, d, p) == IF ~p THEN FAdd(buf, d) ELSE buf

\* variant: the remainder is not kept
SmoothOfDropped(buf) == Zero

SmoothOf(buf) == IF Smoothable(buf) THEN buf ELSE Zero

\* variant: the accumulator is not raised to 0
SmoothedOff(buf) == buf

Smoothed(buf) == IF Smoothable(buf) THEN Zero ELSE buf

\* variant: no clamp
ClampedOff(buf) == buf

Clamped(buf) == FMin(buf, Ms(ClampMS))

\* variant: the loop test written with >
LoopConditionStrict(buf) == Less(Zero, buf)

LoopCondition(buf) == Geq(buf, Zero)

\* variant: post-update hook called ahead of the registry update
ChainNextSwapped(p) ==
    CASE p = "appUpdate" -> "appUpdatePost"
      [] p = "appUpdatePost" -> "updateObjects"
      [] p = "updateObjects" -> "debugUpdate"
      [] p = "debugUpdate" -> "loop"

\* variant: the render pass placed inside the step loop
ChainNextRenderInLoop(p) ==
    CASE p = "appUpdate" -> "updateObjects"
      [] p = "updateObjects" -> "appUpdatePost"
      [] p = "appUpdatePost" -> "debugUpdate"
      [] p = "debugUpdate" -> "appRender"

\* the order of the calls in the body of the step loop, then back to its test
ChainNext(p) ==
    CASE p = "appUpdate" -> "updateObjects"
      [] p = "updateObjects" -> "appUpdatePost"
      [] p = "appUpdatePost" -> "debugUpdate"
      [] p = "debugUpdate" -> "loop"

\* keyIsDown(107) ? 5 : keyIsDown(109) ? .2 : 1
TimeScale(keys) == IF keys.plus THEN "x5" ELSE IF keys.minus THEN "x.2" ELSE "x1"

\* whether the product d * .2 is taken here: d a whole number of ms that 5
\* divides.  The double .2 is within 2^-54 of 1/5 in relative terms, so the
\* product rounds to the double d/5.
SlowScalable(d) == d.e = 0 /\ d.n % 15 = 0

\* variant: the time scale has no effect
TimesUnscaled(d, scale) == d

\* frameTimeDeltaMS *= scale
Times(d, scale) ==
    CASE scale = "x5" -> RoundDouble(F(5 * d.n, 5 * d.e))
      [] scale = "x.2" -> F(d.n \div 5, 0)
      [] scale = "x1" -> d

\* if (debug) frameTimeDeltaMS *= ...
ScaledDelta(d, keys) == IF debug THEN Times(d, TimeScale(keys)) ELSE d

\* lines 76-109: from the notification, with wall delta d and the keys as given,
\* to the first test of the step loop
EngineUpdateHead(d, keys) ==
    LET buf == AddDelta(frameTimeBufferMS, ScaledDelta(d, keys), paused) IN
    /\ realFrameTimeDeltaMS' = d
    /\ frameTimeDeltaMS' = ScaledDelta(d, keys)
    /\ keysDown' = IF debug THEN keys ELSE NoKeys
    /\ bufferAdded' = buf
    /\ deltaSmooth' = SmoothOf(buf)
    /\ frameTimeBufferMS' = Clamped(Smoothed(buf))
    /\ framePaused' = paused
    /\ bufferAtStart' = frameTimeBufferMS
    /\ pc' = "loop"
    /\ UNCHANGED <<steps, chain, passLog, renderLog>>

\* variant: a callback is delivered whatever is running
IdleAlways(p) == TRUE

\* no handler is running: the browser delivers an event or a frame notification
\* only then
Idle(p) == p \in {"unloaded", "idle"}

\* tileImage.onload: appInit() builds the scene ...
AppInitCreate ==
    /\ pc = "onload"
    /\ Len(objects) < MaxInitObjects
    /\ \E p \in {0} \cup DOMAIN objects, k \in Kinds :
          Enroll(p, k)
    /\ UNCHANGED <<deltaLog, bootLog, passStart,
                   queryLog, bufferAtStart, totalSteps,
                   pc, paused, frameTimeBufferMS, deltaSmooth, clock, walk,
                   nFrames, effects, steps, chain, passLog, renderLog, steady, framePaused>>

\* ... may start the game paused ...
AppInitPause ==
    /\ pc = "onload"
    /\ ~paused
    /\ paused' = TRUE
    /\ UNCHANGED <<deltaLog, bootLog, passStart,
                   queryLog, bufferAtStart, totalSteps,
                   pc, frameTimeBufferMS, deltaSmooth, clock, registry, walk,
                   nFrames, effects, steps, chain, passLog, renderLog, steady, framePaused>>

\* ... and returns; onload then calls engineUpdate() with frameTimeMS = 0
TileImageOnload ==
    /\ pc = "onload"
    /\ appInits = 0
    /\ appInits' = appInits + 1
    /\ armed' = armed + 1
    /\ EngineUpdateHead(Zero, NoKeys)
    /\ steady' = ~paused
    /\ UNCHANGED <<loads, onloadHandler, passStart,
                   queryLog, totalSteps,
                   paused, clock, registry, walk, nFrames, effects>>

\* a later frame notification with wall delta d
EngineUpdate ==
    /\ Idle(pc)
    /\ armed > 0
    /\ nFrames < MaxFrames
    /\ \E d \in Deltas :
          /\ EngineUpdateHead(d, NoKeys)
          /\ steady' = (steady /\ d = StepMS /\ ~paused)
    /\ nFrames' = nFrames + 1
    /\ UNCHANGED <<bootLog, passStart,
                   queryLog, totalSteps,
                   paused, clock, registry, walk, effects>>

\* for (;frameTimeBufferMS >= 0; ...) : condition holds, the body starts
LoopEnter ==
    /\ pc = "loop"
    /\ LoopCondition(frameTimeBufferMS)
    /\ pc' = "appUpdate"
    /\ steps' = steps + 1
    /\ totalSteps' = totalSteps + 1
    /\ chain' = <<>>
    /\ UNCHANGED <<deltaLog, bootLog, passStart,
                   queryLog, bufferAtStart,
                   paused, frameTimeBufferMS, deltaSmooth, clock, registry, walk,
                   nFrames, effects, passLog, renderLog, steady, framePaused>>

\* condition fails: frameTimeBufferMS += deltaSmooth, canvas set up, glPreRender
LoopExit ==
    /\ pc = "loop"
    /\ ~LoopCondition(frameTimeBufferMS)
    /\ frameTimeBufferMS' = FAdd(frameTimeBufferMS, deltaSmooth)
    /\ pc' = "appRender"
    /\ UNCHANGED <<deltaLog, bootLog, passStart,
                   queryLog, bufferAtStart, totalSteps,
                   paused, deltaSmooth, clock, registry, walk, nFrames, effects, steps,
                   chain, passLog, renderLog, steady, framePaused>>

\* appUpdate(); then engineUpdateObjects() is entered
AppUpdate ==
    /\ pc = "appUpdate"
    /\ UpdateCallback
    /\ chain' = Append(chain, "appUpdate")
    /\ pc' = ChainNext("appUpdate")
    /\ iter' = 1
    /\ stack' = <<>>
    /\ updated' = <<>>
    /\ selfDestroyed' = {}
    /\ liveAtStart' = {o \in Range(engineObjects') : ~objects'[o].destroyed}
    /\ knownAtStart' = Len(objects')
    /\ UNCHANGED <<deltaLog, bootLog,
                   queryLog, bufferAtStart, totalSteps,
                   frameTimeBufferMS, deltaSmooth, clock, nFrames, steps,
                   renderLog, steady, framePaused>>


\* -------------------------------------------------- engineUpdateObjects
Top == stack[Len(stack)]
Pop == SubSeq(stack, 1, Len(stack) - 1)
\* variant: the parent test dropped from the loop over 'all'
IsRootAlways(o) == TRUE

IsRoot(o) == objects[o].parent = 0

\* variant: the destroyed test dropped from updateObject
VisitableAlways(o) == TRUE

Visitable(o) == ~objects[o].destroyed


\* variant: the loop walks the list as it was when the pass began
MoreRootsAtStart ==
    iter <= Len(engineObjects) /\ engineObjects[iter] <= knownAtStart

\* for (const o of engineObjects): the array iterator compares its index with
\* the length the array has at that moment
MoreRoots == iter <= Len(engineObjects)

\* for(const o of engineObjects) o.parent || updateObject(o);
UpdateRoots ==
    /\ pc = "updateObjects"
    /\ stack = <<>>
    /\ MoreRoots
    /\ LET o == engineObjects[iter] IN
          stack' = IF IsRoot(o) THEN <<[o |-> o, ci |-> 0]>> ELSE <<>>
    /\ iter' = iter + 1
    /\ UNCHANGED <<deltaLog, bootLog, passStart,
                   queryLog, bufferAtStart, totalSteps,
                   pc, paused, frameTimeBufferMS, deltaSmooth, clock, registry,
                   nFrames, effects, steps, chain, passLog, renderLog, steady, framePaused>>

\* updateObject(o) entered with o destroyed: returns at once
UpdateObjectSkip ==
    /\ pc = "updateObjects"
    /\ stack # <<>>
    /\ Top.ci = 0
    /\ ~Visitable(Top.o)
    /\ stack' = Pop
    /\ UNCHANGED <<deltaLog, bootLog, passStart,
                   queryLog, bufferAtStart, totalSteps,
                   pc, paused, frameTimeBufferMS, deltaSmooth, clock, registry,
                   iter, nFrames, effects, steps, chain, passLog, renderLog, steady, framePaused>>

\* updateObject(o) entered with o not destroyed: o.update()
UpdateObject ==
    /\ pc = "updateObjects"
    /\ stack # <<>>
    /\ Top.ci = 0
    /\ Visitable(Top.o)
    /\ UpdateCallback
    /\ updated' = Append(updated, Top.o)
    /\ selfDestroyed' = IF objects'[Top.o].destroyed
                        THEN selfDestroyed \cup {Top.o} ELSE selfDestroyed
    /\ stack' = [stack EXCEPT ![Len(stack)].ci = 1]
    /\ UNCHANGED <<deltaLog, bootLog, passStart,
                   queryLog, bufferAtStart, totalSteps,
                   pc, frameTimeBufferMS, deltaSmooth, clock, iter, nFrames,
                   steps, chain, renderLog, steady, framePaused>>

\* for(const child of o.children) updateObject(child);
UpdateChildren ==
    /\ pc = "updateObjects"
    /\ stack # <<>>
    /\ Top.ci >= 1
    /\ LET kids == objects[Top.o].children IN
          stack' = IF Top.ci <= Len(kids)
                   THEN Append([stack EXCEPT ![Len(stack)].ci = @ + 1],
                               [o |-> kids[Top.ci], ci |-> 0])
                   ELSE Pop
    /\ UNCHANGED <<deltaLog, bootLog, passStart,
                   queryLog, bufferAtStart, totalSteps,
                   pc, paused, frameTimeBufferMS, deltaSmooth, clock, registry,
                   iter, nFrames, effects, steps, chain, passLog, renderLog, steady, framePaused>>

\* variant: the sweep skipped
FilterNothing(list) == list

\* variant: the filter predicate inverted
FilterDestroyedOnly(list) == SelectSeq(list, LAMBDA o : objects[o].destroyed)

\* variant: the survivors come out in reverse
FilterAliveReversed(list) ==
    LET kept == SelectSeq(list, LAMBDA o : ~objects[o].destroyed)
    IN  [i \in 1..Len(kept) |-> kept[Len(kept) + 1 - i]]

\* variant: the children of a destroyed parent go with it
FilterAliveCascade(list) ==
    SelectSeq(list, LAMBDA o :
        /\ ~objects[o].destroyed
        /\ objects[o].parent = 0 \/ ~objects[objects[o].parent].destroyed)

\* list.filter(o=>!o.destroyed)
FilterAlive(list) == SelectSeq(list, LAMBDA o : ~objects[o].destroyed)

\* variant: time = frame++ / FPS
TimeAtPostIncrement(f) == [num |-> f - 1, den |-> FPS]

\* frame / FPS, kept as the quotient
TimeAt(f) == [num |-> f, den |-> FPS]

\* the sweep and the tick at the end of engineUpdateObjects
Sweep ==
    /\ pc = "updateObjects"
    /\ stack = <<>>
    /\ ~MoreRoots
    /\ engineObjects' = FilterAlive(engineObjects)
    /\ engineCollideObjects' = FilterAlive(engineCollideObjects)
    /\ frame' = frame + 1
    /\ time' = TimeAt(frame')
    /\ liveAtStart' = {}
    /\ knownAtStart' = 0
    /\ chain' = Append(chain, "engineUpdateObjects")
    /\ pc' = ChainNext("updateObjects")
    /\ UNCHANGED <<deltaLog, bootLog,
                   queryLog, bufferAtStart, totalSteps,
                   paused, frameTimeBufferMS, deltaSmooth, objects, walk,
                   nFrames, effects, steps, passLog, renderLog, steady, framePaused>>

\* ---------------------------------------------------------- forEachObject
Abs(a) == IF a < 0 THEN -a ELSE a

\* isOverlapping(pA, sA, pB, sB): on both axes the distance between the
\* centres is less than the sum of the half extents
IsOverlapping(pA, sA, pB, sB) ==
    /\ Abs(pA.x - pB.x) * 2 < sA.x + sB.x
    /\ Abs(pA.y - pB.y) * 2 < sA.y + sB.y

\* pos.distanceSquared(o.pos)
DistanceSquared(a, b) == (a.x - b.x) * (a.x - b.x) + (a.y - b.y) * (a.y - b.y)

\* !size
Falsy(size) == size.t = "absent" \/ (size.t = "number" /\ size.x = 0)

\* size.x != undefined
HasX(size) == size.t \in {"vector", "xonly"}

\* variant: a box of no extent taken for no region
QueryBranchEmptyBoxFalsy(size) ==
    IF Falsy(size) \/ (size.t = "vector" /\ size.x = 0 /\ size.y = 0) THEN "all"
    ELSE IF HasX(size) THEN "aabb" ELSE "circle"

\* if (!size) ... else if (size.x != undefined) ... else ...
QueryBranch(size) ==
    IF Falsy(size) THEN "all" ELSE IF HasX(size) THEN "aabb" ELSE "circle"

\* variant: entities marked destroyed are passed over
HitAlive(pos, size, o) ==
    /\ ~objects[o].destroyed
    /\ CASE QueryBranch(size) = "all" -> TRUE
         [] QueryBranch(size) = "aabb" ->
               /\ size.t = "vector"
               /\ IsOverlapping(pos, size, objects[o].pos, objects[o].size)
         [] QueryBranch(size) = "circle" ->
               /\ size.t = "number"
               /\ DistanceSquared(pos, objects[o].pos) < size.x * size.x

\* variant: the circle test with <=
HitInclusive(pos, size, o) ==
    CASE QueryBranch(size) = "all" -> TRUE
      [] QueryBranch(size) = "aabb" ->
            /\ size.t = "vector"
            /\ IsOverlapping(pos, size, objects[o].pos, objects[o].size)
      [] QueryBranch(size) = "circle" ->
            /\ size.t = "number"
            /\ DistanceSquared(pos, objects[o].pos) <= size.x * size.x

\* the test the chosen loop makes on entity o.  An extent that is undefined
\* makes the sum NaN, and size**2 of a non-number is NaN: a comparison with
\* NaN is false.
Hit(pos, size, o) ==
    CASE QueryBranch(size) = "all" -> TRUE
      [] QueryBranch(size) = "aabb" ->
            /\ size.t = "vector"
            /\ IsOverlapping(pos, size, objects[o].pos, objects[o].size)
      [] QueryBranch(size) = "circle" ->
            /\ size.t = "number"
            /\ DistanceSquared(pos, objects[o].pos) < size.x * size.x

\* variant: the two lists taken the wrong way round
ObjectListSwapped(collideObjectsOnly) ==
    IF collideObjectsOnly THEN engineObjects ELSE engineCollideObjects

\* const objectList = collideObjectsOnly ? engineCollideObjects : engineObjects
ObjectList(collideObjectsOnly) ==
    IF collideObjectsOnly THEN engineCollideObjects ELSE engineObjects

\* variant: the list walked from its end
ForEachObjectBackwards(pos, size, collideObjectsOnly) ==
    LET hits == SelectSeq(ObjectList(collideObjectsOnly), LAMBDA o : Hit(pos, size, o))
    IN  /\ qpc' = "returned"
        /\ query' = [pos |-> pos, size |-> size, collideObjectsOnly |-> collideObjectsOnly]
        /\ visited' = [i \in 1..Len(hits) |-> hits[Len(hits) + 1 - i]]
        /\ UNCHANGED debug

\* forEachObject(pos, size, callbackFunction, collideObjectsOnly) with a
\* callback that only takes note of the entity
ForEachObject(pos, size, collideObjectsOnly) ==
    /\ qpc' = "returned"
    /\ query' = [pos |-> pos, size |-> size, collideObjectsOnly |-> collideObjectsOnly]
    /\ visited' = SelectSeq(ObjectList(collideObjectsOnly), LAMBDA o : Hit(pos, size, o))
    /\ UNCHANGED debug

\* the queries the game makes from appUpdatePost
GameQueries ==
    {[pos |-> Vec(0, 0), size |-> NoRegion, collideObjectsOnly |-> TRUE],
     [pos |-> Vec(0, 0), size |-> Region("vector", 0, 0), collideObjectsOnly |-> FALSE],
     [pos |-> Vec(1, 0), size |-> Region("number", 1, 0), collideObjectsOnly |-> FALSE]}

\* appUpdatePost() starts with a query ...
GameQuery ==
    /\ pc = "appUpdatePost"
    /\ qpc = "none"
    /\ \E q \in GameQueries : ForEachObject(q.pos, q.size, q.collideObjectsOnly)
    /\ UNCHANGED <<deltaLog, bootLog, passStart,
                   pc, paused, frameTimeBufferMS, deltaSmooth, clock, registry, walk,
                   nFrames, effects, steps, chain, passLog, renderLog, steady,
                   framePaused, bufferAtStart, totalSteps>>

\* ... or without one, and goes on with its game logic
AppUpdatePost ==
    /\ pc = "appUpdatePost"
    /\ UpdateCallback
    /\ qpc' = "none"
    /\ query' = NoQuery
    /\ visited' = <<>>
    /\ chain' = Append(chain, "appUpdatePost")
    /\ pc' = ChainNext("appUpdatePost")
    /\ UNCHANGED <<deltaLog, bootLog, passStart,
                   debug, bufferAtStart, totalSteps,
                   frameTimeBufferMS, deltaSmooth, clock, walk, nFrames, steps,
                   passLog, renderLog, steady, framePaused>>

\* debugUpdate(); input cleared; then the loop's frameTimeBufferMS -= 1e3 / FPS
DebugUpdate ==
    /\ pc = "debugUpdate"
    /\ UpdateCallback
    /\ chain' = Append(chain, "debugUpdate")
    /\ frameTimeBufferMS' = FSub(frameTimeBufferMS, StepMS)
    /\ pc' = ChainNext("debugUpdate")
    /\ UNCHANGED <<deltaLog, bootLog, passStart,
                   queryLog, bufferAtStart, totalSteps,
                   deltaSmooth, clock, walk, nFrames, steps, passLog,
                   renderLog, steady, framePaused>>

\* ---------------------------------------------------------- render pass
RECURSIVE InsertByOrderUnstable(_, _)
\* variant: equal keys change places
InsertByOrderUnstable(sorted, x) ==
    IF sorted = <<>> THEN <<x>>
    ELSE IF objects[Head(sorted)].renderOrder - objects[x].renderOrder >= 0
         THEN <<x>> \o sorted
         ELSE <<Head(sorted)>> \o InsertByOrderUnstable(Tail(sorted), x)

RECURSIVE InsertByOrder(_, _)
\* place x behind every element that does not compare greater (stable)
InsertByOrder(sorted, x) ==
    IF sorted = <<>> THEN <<x>>
    ELSE IF objects[Head(sorted)].renderOrder - objects[x].renderOrder > 0
         THEN <<x>> \o sorted
         ELSE <<Head(sorted)>> \o InsertByOrder(Tail(sorted), x)

RECURSIVE SortFrom(_, _)
SortFrom(sorted, rest) ==
    IF rest = <<>> THEN sorted
    ELSE SortFrom(InsertByOrder(sorted, Head(rest)), Tail(rest))

\* variant: the sort also drops the entities marked destroyed
SortAliveByRenderOrder(list) ==
    SortFrom(<<>>, SelectSeq(list, LAMBDA o : ~objects[o].destroyed))

\* engineObjects.sort((a,b)=> a.renderOrder - b.renderOrder)
SortByRenderOrder(list) == SortFrom(<<>>, list)

\* glPreRender(...); appRender();
AppRender ==
    /\ pc = "appRender"
    /\ RenderCallback
    /\ pc' = "sort"
    /\ UNCHANGED <<deltaLog, bootLog, passStart,
                   queryLog, bufferAtStart, totalSteps,
                   paused, frameTimeBufferMS, deltaSmooth, clock, walk, nFrames,
                   steps, chain, passLog, renderLog, steady, framePaused>>

\* the sort; the draw walk for(const o of engineObjects) starts
RenderSort ==
    /\ pc = "sort"
    /\ preSort' = engineObjects
    /\ engineObjects' = SortByRenderOrder(engineObjects)
    /\ renders' = renders + 1
    /\ iter' = 1
    /\ pc' = "renderObjects"
    /\ UNCHANGED <<deltaLog, bootLog, passStart,
                   queryLog, bufferAtStart, totalSteps,
                   paused, frameTimeBufferMS, deltaSmooth, clock,
                   engineCollideObjects, objects, stack, nFrames, effects, steps, chain,
                   passLog, rendered, steady, framePaused>>

\* variant: the destroyed test dropped from the draw walk
DrawableAlways(o) == TRUE

Drawable(o) == ~objects[o].destroyed

\* o.destroyed || o.render()  with o destroyed
RenderObjectSkip ==
    /\ pc = "renderObjects"
    /\ iter <= Len(engineObjects)
    /\ ~Drawable(engineObjects[iter])
    /\ iter' = iter + 1
    /\ UNCHANGED <<deltaLog, bootLog, passStart,
                   queryLog, bufferAtStart, totalSteps,
                   pc, paused, frameTimeBufferMS, deltaSmooth, clock, registry,
                   stack, nFrames, effects, steps, chain, passLog, renderLog, steady, framePaused>>

\* o.destroyed || o.render()  with o not destroyed
RenderObject ==
    /\ pc = "renderObjects"
    /\ iter <= Len(engineObjects)
    /\ Drawable(engineObjects[iter])
    /\ RenderCallback
    /\ rendered' = Append(rendered, engineObjects[iter])
    /\ iter' = iter + 1
    /\ UNCHANGED <<deltaLog, bootLog, passStart,
                   queryLog, bufferAtStart, totalSteps,
                   pc, paused, frameTimeBufferMS, deltaSmooth, clock, stack,
                   nFrames, steps, chain, passLog, preSort, renders, steady, framePaused>>

\* walk finished: glCopyToContext(mainContext); appRenderPost();
AppRenderPost ==
    /\ pc = "renderObjects"
    /\ iter > Len(engineObjects)
    /\ RenderCallback
    /\ pc' = "debugRender"
    /\ UNCHANGED <<deltaLog, bootLog, passStart,
                   queryLog, bufferAtStart, totalSteps,
                   paused, frameTimeBufferMS, deltaSmooth, clock, walk, nFrames,
                   steps, chain, passLog, renderLog, steady, framePaused>>

\* debugRender(); watermark; glCopyToContext(mainContext)
DebugRender ==
    /\ pc = "debugRender"
    /\ RenderCallback
    /\ pc' = "frameDone"
    /\ UNCHANGED <<deltaLog, bootLog, passStart,
                   queryLog, bufferAtStart, totalSteps,
                   paused, frameTimeBufferMS, deltaSmooth, clock, walk, nFrames,
                   steps, chain, passLog, renderLog, steady, framePaused>>

\* engineUpdate returns; the driver waits for the next notification
Return ==
    /\ pc = "frameDone"
    /\ pc' = "idle"
    /\ steps' = 0
    /\ renders' = 0
    /\ chain' = <<>>
    /\ updated' = <<>>
    /\ selfDestroyed' = {}
    /\ preSort' = <<>>
    /\ rendered' = <<>>
    /\ iter' = 1
    /\ framePaused' = FALSE
    /\ bufferAtStart' = Zero
    /\ realFrameTimeDeltaMS' = Zero
    /\ frameTimeDeltaMS' = Zero
    /\ keysDown' = NoKeys
    /\ bufferAdded' = Zero
    /\ UNCHANGED <<bootLog, passStart,
                   queryLog, totalSteps,
                   paused, frameTimeBufferMS, deltaSmooth, clock, registry,
                   stack, nFrames, effects, steady>>

Next ==
    \/ AppInitCreate
    \/ AppInitPause
    \/ TileImageOnload
    \/ EngineUpdate
    \/ LoopEnter
    \/ LoopExit
    \/ AppUpdate
    \/ UpdateRoots
    \/ UpdateObjectSkip
    \/ UpdateObject
    \/ UpdateChildren
    \/ Sweep
    \/ GameQuery
    \/ AppUpdatePost
    \/ DebugUpdate
    \/ AppRender
    \/ RenderSort
    \/ RenderObjectSkip
    \/ RenderObject
    \/ AppRenderPost
    \/ DebugRender
    \/ Return

Spec == Init /\ [][Next]_vars

\* ------------------------------------ engineUpdate with an empty scene
\* wall deltas of the scheduler runs, in ms: 0, 1, 5, 10, 1e3/FPS, 40, 50, a stall
SchedDeltas == {Zero, Ms(1), Ms(5), Ms(10), StepMS, Ms(40), Ms(ClampMS), Ms(StallMS)}

\* the state in tileImage.onload at the call of appInit, in either build, with
\* a game that creates no entity and whose callbacks change nothing
SchedInit ==
    /\ pc = "onload"
    /\ paused = FALSE
    /\ frameTimeBufferMS = Zero
    /\ deltaSmooth = Zero
    /\ frame = 0
    /\ time = [num |-> 0, den |-> 1]
    /\ engineObjects = <<>>
    /\ engineCollideObjects = <<>>
    /\ objects = <<>>
    /\ iter = 1
    /\ stack = <<>>
    /\ nFrames = 0
    /\ effects = MaxEffects
    /\ steps = 0
    /\ renders = 0
    /\ chain = <<>>
    /\ updated = <<>>
    /\ selfDestroyed = {}
    /\ preSort = <<>>
    /\ rendered = <<>>
    /\ steady = TRUE
    /\ framePaused = FALSE
    /\ bufferAtStart = Zero
    /\ totalSteps = 0
    /\ debug \in BOOLEAN
    /\ qpc = "none"
    /\ query = NoQuery
    /\ visited = <<>>
    /\ realFrameTimeDeltaMS = Zero
    /\ frameTimeDeltaMS = Zero
    /\ keysDown = NoKeys
    /\ bufferAdded = Zero
    /\ armed = 0
    /\ appInits = 0
    /\ loads = 1
    /\ onloadHandler = IF debug THEN "assert" ELSE "init"
    /\ liveAtStart = {}
    /\ knownAtStart = 0

\* a frame notification with wall delta d; a debug build reads the two keys
TimedFrame ==
    /\ Idle(pc)
    /\ armed > 0
    /\ nFrames < MaxSchedFrames
    /\ \E d \in SchedDeltas, keys \in KeyStates :
          /\ debug \/ keys = NoKeys
          /\ (debug /\ TimeScale(keys) = "x.2") => SlowScalable(d)
          /\ EngineUpdateHead(d, keys)
          /\ steady' = (steady /\ ScaledDelta(d, keys) = StepMS /\ ~paused)
    /\ nFrames' = nFrames + 1
    /\ UNCHANGED <<bootLog, passStart, queryLog, totalSteps,
                   paused, clock, registry, walk, effects>>

SchedNext ==
    \/ AppInitPause
    \/ TileImageOnload
    \/ TimedFrame
    \/ LoopEnter
    \/ LoopExit
    \/ AppUpdate
    \/ Sweep
    \/ AppUpdatePost
    \/ DebugUpdate
    \/ AppRender
    \/ RenderSort
    \/ AppRenderPost
    \/ DebugRender
    \/ Return

SchedSpec == SchedInit /\ [][SchedNext]_vars

\* ------------------------------------------- engineInit and the tile image
\* variant: every function asks for a frame notification
ArmedByAny(f) == TRUE

\* requestAnimationFrame(engineUpdate) stands in engineUpdate and nowhere else
ArmedBy(f) == f = "engineUpdate"

\* ASSERT(c) of a debug build stops the program when c is falsy; a release
\* build has no assertions
CheckFails(c) == debug /\ ~c

\* the program before engineInit is called, in either build, with a game that
\* creates no entity and whose callbacks change nothing
LoadInit ==
    /\ pc = "start"
    /\ paused = FALSE
    /\ frameTimeBufferMS = Zero
    /\ deltaSmooth = Zero
    /\ frame = 0
    /\ time = [num |-> 0, den |-> 1]
    /\ engineObjects = <<>>
    /\ engineCollideObjects = <<>>
    /\ objects = <<>>
    /\ iter = 1
    /\ stack = <<>>
    /\ nFrames = 0
    /\ effects = MaxEffects
    /\ steps = 0
    /\ renders = 0
    /\ chain = <<>>
    /\ updated = <<>>
    /\ selfDestroyed = {}
    /\ preSort = <<>>
    /\ rendered = <<>>
    /\ steady = TRUE
    /\ framePaused = FALSE
    /\ bufferAtStart = Zero
    /\ totalSteps = 0
    /\ debug \in BOOLEAN
    /\ qpc = "none"
    /\ query = NoQuery
    /\ visited = <<>>
    /\ realFrameTimeDeltaMS = Zero
    /\ frameTimeDeltaMS = Zero
    /\ keysDown = NoKeys
    /\ bufferAdded = Zero
    /\ armed = 0
    /\ appInits = 0
    /\ loads = 0
    /\ onloadHandler = "none"
    /\ liveAtStart = {}
    /\ knownAtStart = 0

\* engineInit(...): installs tileImage.onload and returns
EngineInit ==
    /\ pc = "start"
    /\ onloadHandler' = "init"
    /\ armed' = IF ArmedBy("engineInit") THEN armed + 1 ELSE armed
    /\ pc' = "unloaded"
    /\ UNCHANGED <<deltaLog, appInits, loads, passStart,
                   queryLog, bufferAtStart, totalSteps,
                   paused, frameTimeBufferMS, deltaSmooth, clock, registry, walk,
                   nFrames, effects, steps, chain, passLog, renderLog, steady, framePaused>>

\* a load event of tileImage: the installed handler starts.  The init handler
\* replaces itself by ()=>ASSERT(1) in a debug build (line 59) and goes on to
\* the setup and appInit; the replacement handler runs ASSERT(1) and returns
TileImageLoad ==
    /\ Idle(pc)
    /\ loads < MaxLoads
    /\ onloadHandler # "none"
    /\ loads' = loads + 1
    /\ \/ /\ onloadHandler = "init"
          /\ onloadHandler' = IF debug THEN "assert" ELSE "init"
          /\ pc' = "onload"
       \/ /\ onloadHandler = "assert"
          /\ onloadHandler' = onloadHandler
          /\ pc' = IF CheckFails(TRUE) THEN "aborted" ELSE pc
    /\ UNCHANGED <<deltaLog, armed, appInits, passStart,
                   queryLog, bufferAtStart, totalSteps,
                   paused, frameTimeBufferMS, deltaSmooth, clock, registry, walk,
                   nFrames, effects, steps, chain, passLog, renderLog, steady, framePaused>>

\* the init handler run again: appInit() returns and engineUpdate() is called
\* with frameTimeMS = 0, so the delta is -frameTimeLastMS, the negated time
\* stamp of the last notification (here: one of the wall deltas, negated)
TileImageOnloadAgain ==
    /\ pc = "onload"
    /\ appInits > 0
    /\ appInits' = appInits + 1
    /\ armed' = armed + 1
    /\ \E d \in (IF nFrames = 0 THEN {Zero} ELSE {Neg(x) : x \in Deltas}) :
          EngineUpdateHead(d, NoKeys)
    /\ steady' = FALSE
    /\ UNCHANGED <<loads, onloadHandler, passStart,
                   queryLog, totalSteps,
                   paused, clock, registry, walk, nFrames, effects>>

LoadNext ==
    \/ EngineInit
    \/ TileImageLoad
    \/ AppInitPause
    \/ TileImageOnload
    \/ TileImageOnloadAgain
    \/ EngineUpdate
    \/ LoopEnter
    \/ LoopExit
    \/ AppUpdate
    \/ Sweep
    \/ AppUpdatePost
    \/ DebugUpdate
    \/ AppRender
    \/ RenderSort
    \/ AppRenderPost
    \/ DebugRender
    \/ Return

LoadSpec == LoadInit /\ [][LoadNext]_vars

\* ------------------------------------------- forEachObject on its own
\* values of the variables no query reads
QuietEngine ==
    /\ paused = FALSE
    /\ frameTimeBufferMS = Zero
    /\ deltaSmooth = Zero
    /\ frame = 0
    /\ time = [num |-> 0, den |-> 1]
    /\ iter = 1
    /\ stack = <<>>
    /\ nFrames = 0
    /\ steps = 0
    /\ renders = 0
    /\ chain = <<>>
    /\ updated = <<>>
    /\ selfDestroyed = {}
    /\ preSort = <<>>
    /\ rendered = <<>>
    /\ steady = TRUE
    /\ framePaused = FALSE
    /\ bufferAtStart = Zero
    /\ totalSteps = 0
    /\ qpc = "none"
    /\ query = NoQuery
    /\ visited = <<>>
    /\ realFrameTimeDeltaMS = Zero
    /\ frameTimeDeltaMS = Zero
    /\ keysDown = NoKeys
    /\ bufferAdded = Zero
    /\ armed = 1
    /\ appInits = 1
    /\ loads = 1
    /\ onloadHandler = "init"
    /\ liveAtStart = {}
    /\ knownAtStart = 0

ScenePositions == {Vec(0, 0), Vec(1, 0), Vec(0, 1)}
SceneSizes == {Vec(0, 0), Vec(1, 1), Vec(4, 4)}
QueryPoints == {Vec(0, 0), Vec(1, 0)}
QueryRegions ==
    {NoRegion, Region("number", 0, 0), Region("number", 1, 0), Region("number", 2, 0),
     Region("number", -1, 0),
     Region("vector", 0, 0), Region("vector", 2, 2),
     Region("xonly", 2, 0), Region("object", 0, 0)}

\* a scene of parentless entities, enrolled in the order of their identities,
\* some of them marked destroyed since the last sweep
SceneObject(ps, sz, c, d) ==
    [parent |-> 0, children |-> <<>>, destroyed |-> d, renderOrder |-> 1,
     collide |-> c, pos |-> ps, size |-> sz]

QueryInit ==
    /\ QuietEngine
    /\ pc = "query"
    /\ effects = MaxEffects
    /\ debug \in BOOLEAN
    /\ \E n \in 1..MaxQueryObjects :
          \E ps \in [1..n -> ScenePositions], sz \in [1..n -> SceneSizes],
             c \in [1..n -> BOOLEAN], dead \in SUBSET (1..n) :
             /\ objects = [i \in 1..n |-> SceneObject(ps[i], sz[i], c[i], i \in dead)]
             /\ engineObjects = [i \in 1..n |-> i]
             /\ engineCollideObjects = SelectSeq([i \in 1..n |-> i], LAMBDA i : c[i])

\* game logic calls forEachObject
QueryCall ==
    /\ pc = "query"
    /\ qpc = "none"
    /\ \E p \in QueryPoints, size \in QueryRegions, c \in BOOLEAN :
          ForEachObject(p, size, c)
    /\ UNCHANGED <<deltaLog, bootLog, passStart,
                   pc, paused, frameTimeBufferMS, deltaSmooth, clock, registry, walk,
                   nFrames, effects, steps, chain, passLog, renderLog, steady,
                   framePaused, bufferAtStart, totalSteps>>

QueryNext == QueryCall

QuerySpec == QueryInit /\ [][QueryNext]_vars

TypeOK ==
    /\ pc \in {"onload", "idle", "loop", "appUpdate", "updateObjects",
               "appUpdatePost", "debugUpdate", "appRender", "sort",
               "renderObjects", "debugRender", "frameDone", "query",
               "start", "unloaded"}
    /\ paused \in BOOLEAN
    /\ Len(objects) <= MaxObjects
    /\ Range(engineObjects) \subseteq DOMAIN objects
    /\ Range(engineCollideObjects) \subseteq DOMAIN objects
    /\ ModGrid(AbsF(frameTimeBufferMS), 0) = 0
    /\ Less(frameTimeBufferMS, Ms(ClampMS + 1))


\* ------------------------------------- engineUpdateObjects on its own
\* children of p in a forest given by its parent function, in ascending
\* identity, the order in which they were attached
RECURSIVE ChildrenUpTo(_, _, _)
ChildrenUpTo(par, p, n) ==
    IF n = 0 THEN <<>>
    ELSE IF par[n] = p THEN Append(ChildrenUpTo(par, p, n - 1), n)
         ELSE ChildrenUpTo(par, p, n - 1)

ForestObject(par, dead, i, n) ==
    [parent |-> par[i], children |-> ChildrenUpTo(par, i, n), destroyed |-> i \in dead,
     renderOrder |-> 1, collide |-> i # 2, pos |-> Vec(0, 0), size |-> Vec(1, 1)]

\* the state at the call of engineUpdateObjects in the first fixed step:
\* a forest of entities, some marked destroyed since the last sweep
WalkInit ==
    /\ pc = "updateObjects"
    /\ paused = FALSE
    /\ frameTimeBufferMS = Zero
    /\ deltaSmooth = Zero
    /\ frame = 0
    /\ time = [num |-> 0, den |-> 1]
    /\ iter = 1
    /\ stack = <<>>
    /\ nFrames = 0
    /\ effects = MaxEffects - 1
    /\ steps = 1
    /\ totalSteps = 1
    /\ renders = 0
    /\ chain = <<"appUpdate">>
    /\ updated = <<>>
    /\ selfDestroyed = {}
    /\ preSort = <<>>
    /\ rendered = <<>>
    /\ steady = TRUE
    /\ framePaused = FALSE
    /\ bufferAtStart = Zero
    /\ debug = FALSE
    /\ qpc = "none"
    /\ query = NoQuery
    /\ visited = <<>>
    /\ realFrameTimeDeltaMS = Zero
    /\ frameTimeDeltaMS = Zero
    /\ keysDown = NoKeys
    /\ bufferAdded = Zero
    /\ armed = 1
    /\ appInits = 1
    /\ loads = 1
    /\ onloadHandler = "init"
    /\ \E n \in 1..MaxWalkObjects :
          \E par \in [1..n -> 0..(n - 1)], dead \in SUBSET (1..n) :
             /\ \A i \in 1..n : par[i] < i
             /\ liveAtStart = (1..n) \ dead
             /\ knownAtStart = n
             /\ objects = [i \in 1..n |-> ForestObject(par, dead, i, n)]
             /\ engineObjects = [i \in 1..n |-> i]
             /\ engineCollideObjects = SelectSeq([i \in 1..n |-> i], LAMBDA i : i # 2)

WalkNext ==
    \/ UpdateRoots
    \/ UpdateObjectSkip
    \/ UpdateObject
    \/ UpdateChildren
    \/ Sweep

WalkSpec == WalkInit /\ [][WalkNext]_vars

\* ------------------------------------- frames that keep arriving
\* wall deltas of a display that keeps refreshing at 100 Hz or at 60 Hz: all
\* positive
ReapDeltas == {Ms(10), StepMS}

\* accumulators a frame can leave: after one step from 0, after a clamped
\* frame, after a smoothed step from -20/3 ms
ReapBuffers == {Neg(StepMS), F(0, -6), F(-70, -2)}

\* the program between two frames: the last engineUpdate has returned, some
\* entities are enrolled, some of them marked destroyed since the last sweep,
\* the game paused or not
ReapInit ==
    /\ pc = "idle"
    /\ paused \in BOOLEAN
    /\ frameTimeBufferMS \in ReapBuffers
    /\ deltaSmooth = Zero
    /\ frame = 1
    /\ time = TimeAt(1)
    /\ iter = 1
    /\ stack = <<>>
    /\ nFrames = 0
    /\ effects = MaxEffects - 1
    /\ steps = 0
    /\ totalSteps = 1
    /\ renders = 0
    /\ chain = <<>>
    /\ updated = <<>>
    /\ selfDestroyed = {}
    /\ preSort = <<>>
    /\ rendered = <<>>
    /\ steady = FALSE
    /\ framePaused = FALSE
    /\ bufferAtStart = Zero
    /\ debug = FALSE
    /\ qpc = "none"
    /\ query = NoQuery
    /\ visited = <<>>
    /\ realFrameTimeDeltaMS = Zero
    /\ frameTimeDeltaMS = Zero
    /\ keysDown = NoKeys
    /\ bufferAdded = Zero
    /\ armed = 1
    /\ appInits = 1
    /\ loads = 1
    /\ onloadHandler = "init"
    /\ liveAtStart = {}
    /\ knownAtStart = 0
    /\ \E n \in 1..MaxReapObjects :
          \E par \in [1..n -> 0..(n - 1)], dead \in SUBSET (1..n) :
             /\ \A i \in 1..n : par[i] < i
             /\ objects = [i \in 1..n |-> ForestObject(par, dead, i, n)]
             /\ engineObjects = [i \in 1..n |-> i]
             /\ engineCollideObjects = SelectSeq([i \in 1..n |-> i], LAMBDA i : i # 2)

\* a frame notification with a positive wall delta
PositiveFrame ==
    /\ Idle(pc)
    /\ armed > 0
    /\ nFrames < MaxReapFrames
    /\ \E d \in ReapDeltas : EngineUpdateHead(d, NoKeys)
    /\ steady' = FALSE
    /\ nFrames' = nFrames + 1
    /\ UNCHANGED <<bootLog, passStart, queryLog, totalSteps,
                   paused, clock, registry, walk, effects>>

ReapNext ==
    \/ PositiveFrame
    \/ LoopEnter
    \/ LoopExit
    \/ AppUpdate
    \/ UpdateRoots
    \/ UpdateObjectSkip
    \/ UpdateObject
    \/ UpdateChildren
    \/ Sweep
    \/ AppUpdatePost
    \/ DebugUpdate
    \/ AppRender
    \/ RenderSort
    \/ RenderObjectSkip
    \/ RenderObject
    \/ AppRenderPost
    \/ DebugRender
    \/ Return

\* the browser delivers every notification asked for and runs every handler
\* to its end
ReapSpec == ReapInit /\ [][ReapNext]_vars /\ WF_vars(ReapNext)

\* ------------------------------------------------------------- properties
Count(x, list) == Cardinality({i \in 1..Len(list) : list[i] = x})
Pos(x, list) == CHOOSE i \in 1..Len(list) : list[i] = x
IsPrefix(a, b) == Len(a) <= Len(b) /\ SubSeq(b, 1, Len(a)) = a

RECURSIVE DescendantsOf(_)
DescendantsOf(e) ==
    LET kids == Range(objects[e].children)
    IN  kids \cup UNION {DescendantsOf(k) : k \in kids}

InStepLoop == pc \in {"loop", "appUpdate", "updateObjects", "appUpdatePost", "debugUpdate"}
InRenderPass == pc \in {"appRender", "sort", "renderObjects", "debugRender", "frameDone"}

\* ceil(clampCeiling / stepDuration) = ceil(50 * 60 / 1000)
MaxStepsPerFrame == (ClampMS * FPS + 999) \div 1000

\* C1: one call of engineUpdate runs the update chain at most
\* ceil(clampCeiling / stepDuration) = 3 times, whatever the wall delta.
C1_StepsBounded == steps <= MaxStepsPerFrame

C1_Witness ==
    /\ pc = "frameDone"
    /\ steps = MaxStepsPerFrame
    /\ Less(frameTimeBufferMS, Zero)

\* C2: a frame that reads the paused flag set executes no fixed step.
C2_PausedRunsNoStep == framePaused => steps = 0

\* C3: once an entity's own update has marked it destroyed, none of its
\* descendants has its update invoked in that pass.
C3_SelfDestroyedSkipsSubtree ==
    \A e \in selfDestroyed : DescendantsOf(e) \cap Range(updated) = {}

\* C4: when engineUpdateObjects returns, no entity with the destroyed flag set
\* is in the 'all' or in the 'collidable' collection.
C4_SweptOnReturn ==
    pc = "appUpdatePost" =>
        \A o \in Range(engineObjects) \cup Range(engineCollideObjects) :
            ~objects[o].destroyed

C4_Witness ==
    /\ pc = "appUpdatePost"
    /\ \E o \in DOMAIN objects :
          /\ objects[o].destroyed
          /\ objects[o].collide
          /\ o \notin Range(engineObjects)
          /\ o \notin Range(engineCollideObjects)
    /\ engineObjects # <<>>

ChainOrder == <<"appUpdate", "engineUpdateObjects", "appUpdatePost", "debugUpdate">>

\* C5: in every fixed step the calls run once each in the order appUpdate,
\* engineUpdateObjects, appUpdatePost, debugUpdate, and the next iteration
\* starts only after debugUpdate of the previous one.
C5_ChainOrder ==
    /\ IsPrefix(chain, ChainOrder)
    /\ pc = "appUpdate" => chain = <<>>
    /\ pc = "updateObjects" => chain = SubSeq(ChainOrder, 1, 1)
    /\ pc = "appUpdatePost" => chain = SubSeq(ChainOrder, 1, 2)
    /\ pc = "debugUpdate" => chain = SubSeq(ChainOrder, 1, 3)
    /\ (pc = "loop" /\ steps > 0) => chain = ChainOrder

C5_Witness ==
    /\ pc = "loop"
    /\ steps = 2
    /\ chain = ChainOrder
    /\ Len(updated) >= 2

\* C6: every frame makes exactly one render pass, after the step loop has
\* finished, whatever the number of steps and also while paused.
C6_OneRenderAfterLoop ==
    /\ InStepLoop => renders = 0
    /\ InRenderPass => ~LoopCondition(frameTimeBufferMS)
    /\ pc \in {"renderObjects", "debugRender", "frameDone"} => renders = 1

C6_Witness ==
    /\ pc = "frameDone"
    /\ renders = 1
    /\ steps = 0
    /\ framePaused
    /\ nFrames >= 1

\* C7: with every wall delta equal to 1e3/FPS and never paused, every frame
\* after the first executes exactly one fixed step.
C7_SteadyOneStep ==
    (steady /\ nFrames >= 1) =>
        /\ steps <= 1
        /\ InRenderPass => steps = 1

C7_Witness ==
    /\ steady
    /\ nFrames >= 2
    /\ pc = "frameDone"
    /\ steps = 1
    /\ frame = nFrames + 1

\* C8: every entity not marked destroyed is exactly once in 'all', and in
\* 'collidable' exactly once if it was enrolled collidable, else not at all.
C8_LiveEnrolledOnce ==
    \A o \in DOMAIN objects :
        ~objects[o].destroyed =>
            /\ Count(o, engineObjects) = 1
            /\ Count(o, engineCollideObjects) = IF objects[o].collide THEN 1 ELSE 0

C8_Witness ==
    /\ pc = "frameDone"
    /\ \E a, b, c \in DOMAIN objects :
          /\ ~objects[a].destroyed /\ objects[a].collide
          /\ ~objects[b].destroyed /\ ~objects[b].collide
          /\ objects[c].destroyed /\ c \notin Range(engineObjects)
    /\ frame >= 2

\* C9: render calls are issued in ascending renderOrder, and entities of equal
\* renderOrder in the order they had in 'all' before the sort.
C9_StableRenderOrder ==
    \A i, j \in 1..Len(rendered) :
        i < j =>
            /\ objects[rendered[i]].renderOrder <= objects[rendered[j]].renderOrder
            /\ objects[rendered[i]].renderOrder = objects[rendered[j]].renderOrder
                  => Pos(rendered[i], preSort) < Pos(rendered[j], preSort)

C9_Witness ==
    /\ pc = "frameDone"
    /\ Len(rendered) = 3
    /\ preSort # engineObjects
    /\ objects[rendered[1]].renderOrder = objects[rendered[2]].renderOrder
    /\ objects[rendered[2]].renderOrder < objects[rendered[3]].renderOrder

\* C10: the draw walk never invokes render on an entity whose destroyed flag
\* is set when the walk reaches it.
C10_NoRenderOfDestroyed ==
    [][Len(rendered') = Len(rendered) + 1
          => ~objects[rendered'[Len(rendered')]].destroyed]_vars

C10_Witness ==
    /\ pc = "renderObjects"
    /\ iter > 1
    /\ objects[engineObjects[iter - 1]].destroyed
    /\ engineObjects[iter - 1] \notin Range(rendered)
    /\ rendered # <<>>

\* the step on which engineUpdateObjects filters its lists and returns
SweepStep == pc = "updateObjects" /\ pc' = "appUpdatePost"

SameMembers(a, b) == \A o \in DOMAIN objects : Count(o, a) = Count(o, b)

\* C11: only the sweep at the end of engineUpdateObjects takes an entity out
\* of 'all' or 'collidable'; every other step that enrols nothing (a mark, the
\* traversal, the render pass with its sort, a query, a frame of zero steps)
\* leaves the membership of both collections as it was.
C11_OnlySweepRemoves ==
    [][~SweepStep =>
          /\ \A o \in DOMAIN objects :
                /\ Count(o, engineObjects') >= Count(o, engineObjects)
                /\ Count(o, engineCollideObjects') >= Count(o, engineCollideObjects)
          /\ Len(objects') = Len(objects) =>
                /\ SameMembers(engineObjects, engineObjects')
                /\ SameMembers(engineCollideObjects, engineCollideObjects')]_vars

C11_Witness ==
    /\ pc = "frameDone"
    /\ steps = 0
    /\ nFrames >= 1
    /\ rendered # <<>>
    /\ \E o \in DOMAIN objects :
          /\ objects[o].destroyed
          /\ o \in Range(engineObjects)
          /\ o \in Range(engineCollideObjects)

\* C12: an entity leaves a collection only with its destroyed flag set (so
\* the live children of a reaped parent stay), a destroyed flag is never
\* cleared, and an entity that is out of a collection never comes back.
C12_LifecycleMonotone ==
    [][\A o \in DOMAIN objects :
          /\ (o \in Range(engineObjects) /\ o \notin Range(engineObjects'))
                => objects[o].destroyed
          /\ (o \in Range(engineCollideObjects) /\ o \notin Range(engineCollideObjects'))
                => objects[o].destroyed
          /\ objects[o].destroyed => objects'[o].destroyed
          /\ o \notin Range(engineObjects) => o \notin Range(engineObjects')
          /\ o \notin Range(engineCollideObjects) => o \notin Range(engineCollideObjects')]_vars

C12_Witness ==
    /\ pc = "frameDone"
    /\ \E p, c \in DOMAIN objects :
          /\ objects[c].parent = p
          /\ objects[p].destroyed
          /\ p \notin Range(engineObjects)
          /\ ~objects[c].destroyed
          /\ c \in Range(engineObjects)

StepOpen == pc \in {"appUpdate", "updateObjects"}

\* C13: frame changes only on the return of engineUpdateObjects and then by
\* one; from then on time = frame / FPS; and frame counts the fixed steps
\* run so far (the one in progress is counted once its registry update is
\* done).
C13_TickPerStep ==
    [][/\ frame' # frame => (SweepStep /\ frame' = frame + 1)
       /\ SweepStep => frame' = frame + 1
       /\ time'.num * FPS = frame' * time'.den
       /\ frame' = totalSteps' - (IF StepOpen' THEN 1 ELSE 0)]_vars

C13_Witness ==
    /\ pc = "frameDone"
    /\ nFrames >= 1
    /\ steps >= 2
    /\ frame >= 3
    /\ frame = totalSteps
    /\ time = [num |-> frame, den |-> FPS]

QueriedList == ObjectList(query.collideObjectsOnly)

EmptyBoxQuery == qpc = "returned" /\ query.size = Region("vector", 0, 0)

\* C14 as stated: a query with a box of extent 0 at P visits the entities
\* standing exactly at P and no entity standing anywhere else, whatever
\* their sizes.
C14_EmptyBoxExactOnly ==
    EmptyBoxQuery =>
        \A o \in Range(QueriedList) :
            o \in Range(visited) <=> objects[o].pos = query.pos

\* C14 as amended: a query with a box of extent 0 at P visits exactly the
\* entities whose own box holds P strictly inside: on both axes twice the
\* offset from P is less than the entity's size.  An entity at P is visited
\* iff both its sizes are positive; an entity off P is left out iff on some
\* axis twice its offset reaches its size.
C14_EmptyBoxStrictlyInside ==
    EmptyBoxQuery =>
        \A o \in Range(QueriedList) :
            o \in Range(visited) <=>
                /\ 2 * Abs(query.pos.x - objects[o].pos.x) < objects[o].size.x
                /\ 2 * Abs(query.pos.y - objects[o].pos.y) < objects[o].size.y

C14_Witness ==
    /\ EmptyBoxQuery
    /\ \E a, b \in Range(QueriedList) :
          /\ objects[a].pos # query.pos
          /\ a \in Range(visited)
          /\ objects[b].pos = query.pos
          /\ b \notin Range(visited)

Malformed(size) == size.t \in {"xonly", "object"}

\* C15: a call with a malformed region stops on an assertion in a debug
\* build, and in a release build visits every entity of the chosen list.
C15_MalformedRegion ==
    (qpc # "none" /\ Malformed(query.size)) =>
        IF debug THEN qpc = "asserted"
        ELSE qpc = "returned" /\ visited = QueriedList

\* C16: a frame that reads the paused flag set ends with the accumulator at
\* the value it had when the frame began.
C16_PausedFreezesAccumulator ==
    (framePaused /\ pc = "frameDone") => frameTimeBufferMS = bufferAtStart

\* the step on which some entity's update is invoked, and that entity
UpdateStep == Len(updated') = Len(updated) + 1
UpdatedNow == updated'[Len(updated')]

\* C17: an entity that is marked destroyed when the pass has not yet updated
\* it (marked before the pass, or by an update that ran earlier in it) does
\* not have its update invoked, and neither has any entity below it.
C17_MarkedBeforeTurnSkipped ==
    [][UpdateStep =>
          \A e \in DOMAIN objects :
              (objects[e].destroyed /\ e \notin Range(updated)) =>
                  /\ UpdatedNow # e
                  /\ UpdatedNow \notin DescendantsOf(e)]_vars

C17_Witness ==
    /\ pc = "appUpdatePost"
    /\ \E e \in DOMAIN objects :
          /\ objects[e].destroyed
          /\ objects[e].children # <<>>
          /\ objects[e].parent \in Range(updated)
          /\ e \notin Range(updated)
          /\ DescendantsOf(e) \cap Range(updated) = {}
          /\ \E s \in Range(updated) : s > e

\* C18: once an entity is marked destroyed, no entity below it has its
\* update invoked for the rest of the pass.
C18_DestroyedSubtreeNotUpdated ==
    [][UpdateStep =>
          \A p \in DOMAIN objects :
              objects[p].destroyed => UpdatedNow \notin DescendantsOf(p)]_vars

\* C19: updates run in depth-first pre-order from the parentless entities of
\* 'all': an entity with a parent is updated only after that parent, never
\* before one of its ancestors, siblings in the order of the parent's
\* children list, and the entities below one entity in one unbroken run
\* right after it.
C19_DepthFirstPreOrder ==
    \A k \in 1..Len(updated) :
        LET x == updated[k] IN
        /\ IF objects[x].parent = 0
              THEN pc = "updateObjects" => x \in Range(engineObjects)
              ELSE \E j \in 1..(k - 1) : updated[j] = objects[x].parent
        /\ \A j \in 1..(k - 1) :
              /\ updated[j] \notin DescendantsOf(x)
              /\ updated[j] # x
              /\ (objects[updated[j]].parent = objects[x].parent /\ objects[x].parent # 0)
                    => Pos(updated[j], objects[objects[x].parent].children)
                         < Pos(x, objects[objects[x].parent].children)
              /\ x \in DescendantsOf(updated[j])
                    => \A m \in (j + 1)..k : updated[m] \in DescendantsOf(updated[j])

C19_Witness ==
    /\ pc = "appUpdatePost"
    /\ \E p, a, b, c \in DOMAIN objects :
          /\ objects[p].children = <<a, b>>
          /\ objects[a].children = <<c>>
          /\ updated = <<p, a, c, b>>

\* C20: the sweep leaves in each collection exactly the entries not marked
\* destroyed, each as often as before and in the order they had.
C20_SweepStableFilter ==
    [][SweepStep =>
          /\ \A o \in DOMAIN objects :
                /\ Count(o, engineObjects') =
                      IF objects[o].destroyed THEN 0 ELSE Count(o, engineObjects)
                /\ Count(o, engineCollideObjects') =
                      IF objects[o].destroyed THEN 0 ELSE Count(o, engineCollideObjects)
          /\ \A i, j \in 1..Len(engineObjects') :
                i < j => Pos(engineObjects'[i], engineObjects)
                           < Pos(engineObjects'[j], engineObjects)
          /\ \A i, j \in 1..Len(engineCollideObjects') :
                i < j => Pos(engineCollideObjects'[i], engineCollideObjects)
                           < Pos(engineCollideObjects'[j], engineCollideObjects)]_vars

C20_Witness ==
    /\ pc = "appUpdatePost"
    /\ \E a, o, b \in DOMAIN objects :
          /\ a < o /\ o < b
          /\ objects[o].destroyed /\ objects[o].collide
          /\ ~objects[a].destroyed /\ objects[a].collide
          /\ ~objects[b].destroyed /\ objects[b].collide
          /\ engineCollideObjects = <<a, b>>
          /\ Len(engineObjects) = 3
          /\ o \notin Range(engineObjects)

RadiusQuery == qpc = "returned" /\ query.size.t = "number" /\ query.size.x # 0

\* C21: a query with a radius r (a number other than 0) at P calls the
\* callback once on every entity of the chosen list whose squared distance
\* from P is less than r*r, and on no other: an entity at distance exactly
\* |r| is left out.
C21_RadiusStrictlyInside ==
    RadiusQuery =>
        \A o \in Range(QueriedList) :
            Count(o, visited) =
                IF (query.pos.x - objects[o].pos.x) * (query.pos.x - objects[o].pos.x)
                   + (query.pos.y - objects[o].pos.y) * (query.pos.y - objects[o].pos.y)
                   < query.size.x * query.size.x
                THEN 1 ELSE 0

C21_Witness ==
    /\ RadiusQuery
    /\ query.size.x = 1
    /\ \E a, b \in Range(QueriedList) :
          /\ objects[a].pos = query.pos
          /\ a \in Range(visited)
          /\ DistanceSquared(objects[b].pos, query.pos) = 1
          /\ b \notin Range(visited)

\* C22: the query walks 'collidable' when collideObjectsOnly is set and 'all'
\* when it is not, and with no region or the region 0 it calls the callback
\* once on every entity of that list, in list order, wherever the entity is
\* and whatever its size.
C22_ListChoiceAndVisitAll ==
    qpc = "returned" =>
        LET list == IF query.collideObjectsOnly THEN engineCollideObjects
                    ELSE engineObjects
        IN  /\ Range(visited) \subseteq Range(list)
            /\ (query.size = NoRegion \/ query.size = Region("number", 0, 0))
                  => visited = list

C22_Witness ==
    /\ qpc = "returned"
    /\ query.size = Region("number", 0, 0)
    /\ ~query.collideObjectsOnly
    /\ Len(visited) = 2
    /\ Len(engineCollideObjects) = 1
    /\ objects[visited[1]].pos # objects[visited[2]].pos
    /\ objects[visited[1]].size # objects[visited[2]].size

\* the decrement that ends a pass of the step loop
StepCloses == pc = "debugUpdate" /\ pc' = "loop"

\* x - y in the reals, unrounded
ExactSub(x, y) == F(x.n - y.n, x.e - y.e)

\* the wall delta as line 89 leaves it: times 5 with key 107 down, a fifth
\* with only key 109 down, itself otherwise; itself in a release build
DeltaScaledAsKeysSay ==
    (pc = "loop" /\ nFrames > 0) =>
        /\ (debug /\ keysDown.plus) =>
              frameTimeDeltaMS = RoundDouble(F(5 * realFrameTimeDeltaMS.n,
                                               5 * realFrameTimeDeltaMS.e))
        /\ (debug /\ ~keysDown.plus /\ keysDown.minus) =>
              F(5 * frameTimeDeltaMS.n, 5 * frameTimeDeltaMS.e) = realFrameTimeDeltaMS
        /\ (~debug \/ keysDown = NoKeys) => frameTimeDeltaMS = realFrameTimeDeltaMS
        /\ bufferAdded = (IF framePaused THEN bufferAtStart
                          ELSE FAdd(bufferAtStart, frameTimeDeltaMS))

FrameEnd == pc = "frameDone"

\* C29: when the accumulator a, once line 91 has (or, paused, has not) added the
\* delta, lies strictly between -9 and 0, the first loop test sees 0 with a kept
\* aside, the frame runs exactly one step and ends with a - 1e3/FPS exactly;
\* when a <= -9 the frame runs no step and ends with a
C29_SmoothingOneStep ==
    /\ (pc = "loop" /\ steps = 0 /\ Smoothable(bufferAdded)) =>
          (frameTimeBufferMS = Zero /\ deltaSmooth = bufferAdded)
    /\ (FrameEnd /\ Less(Neg(Ms(SmoothMS)), bufferAdded) /\ Less(bufferAdded, Zero)) =>
          (steps = 1 /\ frameTimeBufferMS = ExactSub(bufferAdded, StepMS))
    /\ (FrameEnd /\ ~Less(Neg(Ms(SmoothMS)), bufferAdded)) =>
          (steps = 0 /\ frameTimeBufferMS = bufferAdded)

\* an unpaused frame whose delta brought the accumulator to between -9 and -1 ms
\* has ended after its one step
C29_Witness ==
    /\ FrameEnd
    /\ ~framePaused
    /\ Less(Zero, frameTimeDeltaMS)
    /\ Less(Neg(Ms(SmoothMS)), bufferAdded)
    /\ Less(bufferAdded, Neg(Ms(1)))
    /\ steps = 1
    /\ frameTimeBufferMS = ExactSub(bufferAdded, StepMS)

\* an unpaused frame that the clamp left alone has ended
Unclamped == FrameEnd /\ ~framePaused /\ ~Less(Ms(ClampMS), bufferAdded)

\* start + delta - n * (1e3/FPS) in the reals
ExactBalance ==
    F(bufferAtStart.n + frameTimeDeltaMS.n - steps * StepMS.n,
      bufferAtStart.e + frameTimeDeltaMS.e - steps * StepMS.e)

RECURSIVE SubSteps(_, _)
\* a with n double subtractions of 1e3/FPS applied
SubSteps(a, n) == IF n = 0 THEN a ELSE SubSteps(FSub(a, StepMS), n - 1)

\* C30 as stated: in an unpaused frame in which the accumulator after the
\* addition of the scaled delta is at most 50 ms, the accumulator at the end is
\* start + scaled delta - n * stepDuration, n the steps run in the frame
C30_ConservedExactly == Unclamped => frameTimeBufferMS = ExactBalance

\* C30 amended: in such a frame the accumulator at the end is a with n double
\* subtractions of 1e3/FPS applied, a being the double nearest to start + scaled
\* delta; it differs from start + scaled delta - n * stepDuration by no more
\* than the n + 1 roundings, each at most 2^-48 ms, and smoothing adds nothing
\* to that
C30_ConservedUpToRounding ==
    Unclamped =>
        /\ bufferAdded = FAdd(bufferAtStart, frameTimeDeltaMS)
        /\ frameTimeBufferMS = SubSteps(bufferAdded, steps)
        /\ frameTimeBufferMS.n = ExactBalance.n
        /\ frameTimeBufferMS.e - ExactBalance.e \in -3 * (steps + 1) .. 3 * (steps + 1)

\* an unclamped frame of two steps has ended 2^-48 ms away from the exact
\* balance: a stall of 50 ms met an accumulator of -1e3/FPS
C30_Witness ==
    /\ Unclamped
    /\ steps = 2
    /\ Less(Ms(32), bufferAdded)
    /\ frameTimeBufferMS # ExactBalance
    /\ frameTimeBufferMS = SubSteps(bufferAdded, 2)

\* C24: until appInit has returned (once, in the load handler) engineUpdate has
\* not been invoked, no update-chain callback, registry update or render pass
\* has run, and no frame notification has been asked for
C24_SetupBeforeFirstFrame ==
    appInits = 0 =>
        /\ pc \in {"start", "unloaded", "onload"}
        /\ armed = 0
        /\ nFrames = 0
        /\ totalSteps = 0
        /\ frame = 0
        /\ chain = <<>>
        /\ renders = 0
        /\ rendered = <<>>

\* the first engineUpdate, called by the load handler after the one appInit,
\* is in its first step, and its requestAnimationFrame is the only one made
C24_Witness ==
    /\ loads = 1
    /\ appInits = 1
    /\ armed = 1
    /\ nFrames = 0
    /\ pc = "appUpdate"
    /\ totalSteps = 1

\* an invocation of engineUpdate begins
FrameBegins == nFrames' # nFrames \/ appInits' # appInits

C26_SecondLoadGuarded ==
    loads >= 2 =>
        IF debug THEN pc = "aborted"
        ELSE pc # "onload" /\ appInits <= 1 /\ armed <= 1

\* C27 as stated: at the moment the render callback of the frame (appRender)
\* runs, the draw sequence is already sorted by ascending renderOrder, the sort
\* of that frame being applied, and holds no destroyed entity
C27_RenderCallbackSeesSorted ==
    pc = "appRender" =>
        /\ engineObjects = SortByRenderOrder(engineObjects)
        /\ \A o \in Range(engineObjects) : ~objects[o].destroyed

\* C28 as stated: when a pass of engineUpdateObjects ends, every entity that
\* was in 'all' and not destroyed when the pass began and was not marked
\* during the pass has had its update called in the pass, with or without a
\* parent, whatever has become of the parent
C28_ActiveAlwaysUpdated ==
    [][SweepStep =>
          \A o \in liveAtStart :
              ~objects[o].destroyed => o \in Range(updated)]_vars

\* the step loop of the running frame is over, or the frame has returned
LoopOver == pc \in {"appRender", "sort", "renderObjects", "debugRender", "frameDone", "idle"}

\* the frame met the clamp: line 109 cut the accumulator down to 50 ms
HitClamp == Less(Ms(ClampMS), bufferAdded)

\* C31: with wall deltas >= 0 and the accumulator starting at 0, the step loop
\* of every frame ends (after at most 3 steps) and from then until the next
\* notification the accumulator is below 0 and above -(1e3/FPS + 9) ms; a frame
\* that met the 50 ms clamp ends with it in [-1e3/FPS, 0), whatever the stall
C31_AccumulatorBounded ==
    /\ steps <= 3
    /\ LoopOver =>
          /\ Less(frameTimeBufferMS, Zero)
          /\ Less(Neg(FAdd(StepMS, Ms(SmoothMS))), frameTimeBufferMS)
    /\ (FrameEnd /\ HitClamp) =>
          /\ Geq(frameTimeBufferMS, Neg(StepMS))
          /\ Less(frameTimeBufferMS, Zero)

\* a stall of StallMS ms in an unpaused frame has been clamped and the frame
\* has ended after three steps
C31_Witness ==
    /\ FrameEnd
    /\ ~framePaused
    /\ realFrameTimeDeltaMS = Ms(StallMS)
    /\ HitClamp
    /\ steps = 3
    /\ Less(frameTimeBufferMS, Zero)
    /\ Geq(frameTimeBufferMS, Neg(StepMS))

\* the accumulator as the first loop test of the frame found it when line 91
\* left it >= 0: cut down to 50 ms by line 109
AfterClamp == IF HitClamp THEN Ms(ClampMS) ELSE bufferAdded

\* k * (1e3/FPS) in the reals
StepsTimes(k) == F(k * StepMS.n, k * StepMS.e)

C33_UpdatedAtMostOnce ==
    \A i, j \in 1..Len(updated) : i # j => updated[i] # updated[j]

\* a pass has ended in which three or more entities were updated, one of
\* them a child that 'all' holds as well
C33_Witness ==
    /\ pc = "appUpdatePost"
    /\ Len(updated) >= 3
    /\ \E c \in Range(updated) :
          /\ objects[c].parent # 0
          /\ c \in Range(engineObjects)

\* a stands ahead of b in list
Before(a, b, list) ==
    \E i, j \in 1..Len(list) : i < j /\ list[i] = a /\ list[j] = b

NonDecreasing(list) ==
    \A i, j \in 1..Len(list) :
        i < j => objects[list[i]].renderOrder <= objects[list[j]].renderOrder

\* a step of the render pass, from appRender to the return of debugRender
RenderStep == pc \in {"appRender", "sort", "renderObjects", "debugRender"}

SortStep == pc = "sort" /\ pc' = "renderObjects"

\* C34: the render pass sorts 'all' in place: its sort leaves 'all' a
\* permutation of what it was, destroyed entries included, in non-decreasing
\* renderOrder; no step of the render pass adds to or takes from 'all' or
\* touches 'collidable'; no step but the sort changes the relative order of
\* two entities of 'all'; and an update pass calls the updates of its roots in
\* the order of 'all', so the next pass follows the sorted order, not the
\* enrolment order
C34_SortInPlace ==
    [][/\ RenderStep =>
             /\ Len(engineObjects') = Len(engineObjects)
             /\ SameMembers(engineObjects, engineObjects')
             /\ engineCollideObjects' = engineCollideObjects
       /\ SortStep => NonDecreasing(engineObjects')
       /\ ~SortStep =>
             \A a, b \in Range(engineObjects) \cap Range(engineObjects') :
                 Before(a, b, engineObjects) => Before(a, b, engineObjects')
       /\ UpdateStep =>
             \A a, b \in Range(updated') :
                 (IsRoot(a) /\ IsRoot(b) /\ Before(a, b, updated'))
                     => Before(a, b, engineObjects')]_vars

\* an update pass has taken two roots against their enrolment order, the
\* later enrolled one first, because the render pass of the frame before had
\* sorted it to the front
C34_Witness ==
    /\ nFrames >= 1
    /\ pc = "updateObjects"
    /\ \E a, b \in Range(updated) :
          /\ IsRoot(a)
          /\ IsRoot(b)
          /\ a > b
          /\ Before(a, b, updated)
          /\ objects[a].renderOrder < objects[b].renderOrder

\* C35: forEachObject does not look at the destroyed flag.  A destroyed entity
\* still in the queried list is visited by a query without region, by a radius
\* query whose circle holds its position strictly inside, and by a box query
\* whenever an entity of the same position and size is; and no query visits a
\* live entity while leaving out a destroyed one of the same position and size
C35_QueryIgnoresDestroyed ==
    qpc = "returned" =>
        \A o \in Range(QueriedList) :
            objects[o].destroyed =>
                /\ (query.size = NoRegion \/ query.size = Region("number", 0, 0))
                      => o \in Range(visited)
                /\ (RadiusQuery /\ DistanceSquared(query.pos, objects[o].pos)
                                      < query.size.x * query.size.x)
                      => o \in Range(visited)
                /\ \A p \in Range(QueriedList) :
                      (objects[p].pos = objects[o].pos /\ objects[p].size = objects[o].size)
                          => (p \in Range(visited) <=> o \in Range(visited))

\* a box query has visited a destroyed entity of 'collidable' and with it a
\* live one
C35_Witness ==
    /\ qpc = "returned"
    /\ query.size = Region("vector", 2, 2)
    /\ query.collideObjectsOnly
    /\ \E o, p \in Range(visited) :
          /\ objects[o].destroyed
          /\ o \in Range(engineCollideObjects)
          /\ ~objects[p].destroyed
    /\ \E o \in Range(visited) : objects[o].destroyed /\ o \in Range(engineObjects)

\* a call of forEachObject returns
QueryStep == qpc = "none" /\ qpc' = "returned"

\* C36: a query whose callback changes nothing is read-only: over the call both
\* lists keep their contents and order, every entity keeps its destroyed flag,
\* the accumulator and the tick counter stay as they are, and the callback is
\* called at most once per entity, on entities of the chosen list only and in
\* the order of that list
C36_QueryReadOnly ==
    [][QueryStep =>
          /\ engineObjects' = engineObjects
          /\ engineCollideObjects' = engineCollideObjects
          /\ Len(objects') = Len(objects)
          /\ \A o \in DOMAIN objects : objects'[o].destroyed = objects[o].destroyed
          /\ frameTimeBufferMS' = frameTimeBufferMS
          /\ frame' = frame
          /\ time' = time
          /\ LET list == IF query'.collideObjectsOnly THEN engineCollideObjects
                         ELSE engineObjects
             IN  /\ Range(visited') \subseteq Range(list)
                 /\ \A o \in Range(list) : Count(o, visited') <= 1
                 /\ \A a, b \in Range(visited') :
                       Before(a, b, visited') => Before(a, b, list)]_vars

\* a query over 'all' has returned after visiting two entities, one of them
\* marked destroyed and still marked, with both lists as they were
C36_Witness ==
    /\ qpc = "returned"
    /\ ~query.collideObjectsOnly
    /\ query.size = Region("number", 2, 0)
    /\ visited = <<1, 2>>
    /\ engineObjects = <<1, 2>>
    /\ engineCollideObjects = <<2>>
    /\ objects[1].destroyed
    /\ ~objects[2].destroyed

\* the parentless entities that updates have enrolled during the running pass
EnrolledInPass == {o \in DOMAIN objects : o > knownAtStart /\ IsRoot(o)}

\* C37 as stated: when a pass ends, every parentless entity that an update
\* enrolled during the pass has had its update called in the pass, and is
\* still in 'all' after the sweep unless it was marked destroyed
C37_EnrolledUpdatedInPass ==
    [][SweepStep =>
          \A o \in EnrolledInPass :
              /\ o \in Range(updated)
              /\ ~objects[o].destroyed => o \in Range(engineObjects')]_vars

\* C37 amended: the loop over 'all' reaches every parentless entity that an
\* update enrolled during the pass, and calls its update unless the entity
\* was marked destroyed before its turn; it is still in 'all' after the sweep
\* if and only if it is not marked destroyed
C37_EnrolledReachedInPass ==
    [][/\ SweepStep =>
             \A o \in EnrolledInPass :
                 /\ o \in Range(engineObjects)
                 /\ Pos(o, engineObjects) < iter
                 /\ ~objects[o].destroyed => o \in Range(updated)
                 /\ o \in Range(engineObjects') <=> ~objects[o].destroyed
       /\ UpdateStep => ~objects[UpdatedNow].destroyed]_vars

\* a pass is about to end in which an update enrolled a parentless entity
\* that the same pass went on to update
C37_Witness ==
    /\ pc = "updateObjects"
    /\ stack = <<>>
    /\ ~MoreRoots
    /\ \E o \in EnrolledInPass :
          /\ ~objects[o].destroyed
          /\ o \in Range(updated)
          /\ updated[Len(updated)] = o
          /\ Len(updated) >= 2

\* every identifier an entity of a run can carry
EntityIds == 1..(MaxObjects + MaxReapObjects)

Marked(o) ==
    /\ o \in DOMAIN objects
    /\ objects[o].destroyed
    /\ o \in Range(engineObjects) \cup Range(engineCollideObjects)

Reaped(o) == o \notin Range(engineObjects) \cup Range(engineCollideObjects)

\* two more notifications are to come: with deltas of 10 ms or more they lift
\* any accumulator a frame can leave to above -9
FramesLeft == nFrames + 2 <= MaxReapFrames

\* a step of a frame that has entered no fixed step so far
NoStepYet == ~Idle(pc) /\ steps = 0 /\ steps' = 0

\* C38: while the game is not paused and frame notifications with positive
\* wall deltas keep arriving, every entity marked destroyed and still enrolled
\* is eventually in neither collection (or the game has been paused again);
\* and as long as a frame has run no fixed step, an entity marked destroyed
\* keeps its place in both collections, stays marked, and is never the entity
\* the render walk draws
C38_ReapedEventually ==
    /\ \A o \in EntityIds :
          (Marked(o) /\ ~paused /\ FramesLeft) ~> (Reaped(o) \/ paused)
    /\ [][NoStepYet =>
            \A o \in DOMAIN objects : objects[o].destroyed =>
               /\ objects'[o].destroyed
               /\ Count(o, engineObjects') = Count(o, engineObjects)
               /\ Count(o, engineCollideObjects') = Count(o, engineCollideObjects)
               /\ Len(rendered') > Len(rendered) => rendered'[Len(rendered')] # o]_vars

\* an entity marked before the first frame sat in both collections through a
\* frame of no step and was swept by the first step of the second frame
C38_Witness ==
    /\ pc = "frameDone"
    /\ nFrames = 2
    /\ totalSteps = 2
    /\ steps = 1
    /\ effects = MaxEffects - 1
    /\ \E o \in DOMAIN objects :
          /\ objects[o].destroyed
          /\ objects[o].collide
          /\ Reaped(o)


====
